---- MODULE Spec2Model ----
(***************************************************************************)
(* Antistatic Loader: a launcher that checks that the Node.js binary is    *)
(* present, assembles a command line (interpreter, security flag, entry    *)
(* script, escaped caller arguments), spawns it, waits for it and mirrors  *)
(* its exit code, writing a best-effort debug log.                         *)
(*                                                                         *)
(* Strings are sequences of one-character strings.  Three builds are       *)
(* modelled: the cross-platform launcher compiled for POSIX ("posix") and  *)
(* for Windows ("windows"), and the Windows-only WinMain that forwards     *)
(* lpCmdLine unescaped ("legacy").                                         *)
(***************************************************************************)
EXTENDS Integers, Sequences, FiniteSets, TLC

(***************************************************************************)
(* Characters                                                              *)
(***************************************************************************)
SP == " "
TAB == "\t"
NL == "\n"
SQ == "'"
DQ == "\""
BS == "\\"
\* The backquote and the vertical tab have no string literal: named tokens.
BQ == "<bq>"
VT == "<vt>"

\* Maximum length of an argument drawn for the escaping functions.
MaxStrLen == 3

\* Maximum number of caller arguments of a launcher run.
MaxArgs == 2

\* Characters the escaping functions are exercised with.
EscAlphabet == {"a", SP, SQ, DQ, BS, "$", BQ, ";", "|", "&", "#"}

StringsOver(alphabet, n) == UNION {[1..k -> alphabet] : k \in 0..n}

Repeat(c, n) == [k \in 1..n |-> c]

Contains(s, chars) == \E k \in 1..Len(s) : s[k] \in chars

(***************************************************************************)
(* Config                                                                  *)
(***************************************************************************)
NodeLocationPosix == <<".", "/", "n", "o", "d", "e">>

NodeLocationWindows == <<".", "/", "n", "o", "d", "e", ".", "e", "x", "e">>

gameEntryPoint ==
    <<".", "/", "a", "p", "p", "/", "d", "i", "s", "t", "/", "s", "r", "c",
      "/", "e", "n", "g", "i", "n", "e", ".", "j", "s">>

SecurityFlag ==
    <<"-", "-", "d", "i", "s", "a", "l", "l", "o", "w", "-", "c", "o", "d",
      "e", "-", "g", "e", "n", "e", "r", "a", "t", "i", "o", "n", "-", "f",
      "r", "o", "m", "-", "s", "t", "r", "i", "n", "g", "s">>

nodeLocation(v) == IF v = "posix" THEN NodeLocationPosix ELSE NodeLocationWindows

(***************************************************************************)
(* escapeArgument                                                          *)
(***************************************************************************)
\* The find_first_of set of the Windows branch.
WindowsEscapeChars == {SP, TAB, NL, VT, DQ}

\* The find_first_of set of the POSIX branch.
PosixEscapeChars ==
    {SP, TAB, NL, VT, SQ, DQ, BS, "$", BQ, "!", "*", "?", "[", "]", "(", ")",
     "{", "}", ";", "<", ">", "|", "&"}

EscapeChars(v) == IF v = "posix" THEN PosixEscapeChars ELSE WindowsEscapeChars

\* Number of consecutive backslashes of arg starting at index i.
RECURSIVE BackslashRun(_, _)
BackslashRun(arg, i) ==
    IF i <= Len(arg) /\ arg[i] = BS THEN 1 + BackslashRun(arg, i + 1) ELSE 0

\* A variant of the Windows loop, as in the earlier revision of the file:
\* every backslash doubled, every quote escaped.
RECURSIVE WindowsEscapeDoubling(_, _, _)
WindowsEscapeDoubling(arg, i, escaped) ==
    IF i > Len(arg) THEN escaped
    ELSE WindowsEscapeDoubling(arg, i + 1,
             escaped \o (IF arg[i] = DQ THEN <<BS, DQ>>
                         ELSE IF arg[i] = BS THEN <<BS, BS>>
                         ELSE <<arg[i]>>))

\* The body of the Windows for-loop, from index i with `escaped` built so far.
RECURSIVE WindowsEscapeLoop(_, _, _)
WindowsEscapeLoop(arg, i, escaped) ==
    IF i > Len(arg) THEN escaped
    ELSE LET backslashCount == BackslashRun(arg, i)
             j == i + backslashCount
         IN  IF j > Len(arg)
             THEN escaped \o Repeat(BS, backslashCount * 2)
             ELSE IF arg[j] = DQ
             THEN WindowsEscapeLoop(arg, j + 1,
                      escaped \o Repeat(BS, backslashCount * 2) \o <<BS, DQ>>)
             ELSE WindowsEscapeLoop(arg, j + 1,
                      escaped \o Repeat(BS, backslashCount) \o <<arg[j]>>)

\* A variant of the POSIX loop that writes a single quote as backslash, quote
\* without leaving the quoted string.
RECURSIVE PosixEscapeLoopBackslash(_, _, _)
PosixEscapeLoopBackslash(arg, i, escaped) ==
    IF i > Len(arg) THEN escaped
    ELSE PosixEscapeLoopBackslash(arg, i + 1,
             escaped \o (IF arg[i] = SQ THEN <<BS, SQ>> ELSE <<arg[i]>>))

\* The POSIX range-for: a single quote becomes quote, backslash, quote, quote;
\* every other character is copied.
RECURSIVE PosixEscapeLoop(_, _, _)
PosixEscapeLoop(arg, i, escaped) ==
    IF i > Len(arg) THEN escaped
    ELSE PosixEscapeLoop(arg, i + 1,
             escaped \o (IF arg[i] = SQ THEN <<SQ, BS, SQ, SQ>> ELSE <<arg[i]>>))

escapeArgumentWindows(arg) ==
    IF ~Contains(arg, WindowsEscapeChars) THEN arg
    ELSE WindowsEscapeLoop(arg, 1, <<DQ>>) \o <<DQ>>

\* A variant of the POSIX branch, as in the earlier revision of the file:
\* every argument is quoted.
escapeArgumentPosixAlwaysQuotes(arg) == PosixEscapeLoop(arg, 1, <<SQ>>) \o <<SQ>>

escapeArgumentPosix(arg) ==
    IF ~Contains(arg, PosixEscapeChars) THEN arg
    ELSE PosixEscapeLoop(arg, 1, <<SQ>>) \o <<SQ>>

escapeArgument(v, arg) ==
    IF v = "posix" THEN escapeArgumentPosix(arg) ELSE escapeArgumentWindows(arg)

(***************************************************************************)
(* What the receiving side makes of a command string.                      *)
(*                                                                         *)
(* ShParse: the words of the command line given to /bin/sh -c, by the      *)
(* POSIX shell's token recognition and quote removal.  `oneCommand` is     *)
(* FALSE when an unquoted control or redirection operator, or an           *)
(* unterminated quote, occurs; `verbatim` is FALSE when an expansion       *)
(* (parameter, command, tilde, pathname) is triggered.                     *)
(***************************************************************************)
ShOperators == {";", "|", "&", "<", ">", "(", ")", NL}

ShBlanks == {SP, TAB}

ShGlob == {"*", "?", "["}

\* Characters that make $ start an expansion when they follow it.
ShDollarStart == {"a", "$", "#", "{", "(", "?", "!", "*", "@", "-"}

\* Characters a backslash escapes inside double quotes.
ShDqEscapable == {"$", BQ, DQ, BS}

\* The scanner's state: position, quoting mode ("u" unquoted, "s" single,
\* "d" double), the word being collected, and what was recognised so far.
ShStart ==
    [i |-> 1, mode |-> "u", cur |-> <<>>, inWord |-> FALSE, words |-> <<>>,
     oneCommand |-> TRUE, verbatim |-> TRUE]

ShPush(st) == IF st.inWord THEN Append(st.words, st.cur) ELSE st.words

ShTake(st, n, c) ==
    [st EXCEPT !.i = @ + n, !.cur = Append(@, c), !.inWord = TRUE]

RECURSIVE ShSkipComment(_, _)
ShSkipComment(s, i) ==
    IF i > Len(s) \/ s[i] = NL THEN i ELSE ShSkipComment(s, i + 1)

ShExpands(s, i) ==
    \/ s[i] = BQ
    \/ s[i] = "$" /\ i < Len(s) /\ s[i + 1] \in ShDollarStart

\* One character (or escaped pair) of the scan.
ShStep(s, st) ==
    LET i == st.i
        c == s[i]
    IN
    CASE st.mode = "s" ->
           IF c = SQ THEN [st EXCEPT !.i = i + 1, !.mode = "u"]
           ELSE ShTake(st, 1, c)
      [] st.mode = "d" ->
           IF c = DQ THEN [st EXCEPT !.i = i + 1, !.mode = "u"]
           ELSE IF c = BS /\ i < Len(s) /\ s[i + 1] \in ShDqEscapable
           THEN ShTake(st, 2, s[i + 1])
           ELSE IF ShExpands(s, i)
           THEN [ShTake(st, 1, c) EXCEPT !.verbatim = FALSE]
           ELSE ShTake(st, 1, c)
      [] c \in ShBlanks ->
           [st EXCEPT !.i = i + 1, !.words = ShPush(st), !.cur = <<>>,
                      !.inWord = FALSE]
      [] c \in ShOperators ->
           [st EXCEPT !.i = i + 1, !.words = ShPush(st), !.cur = <<>>,
                      !.inWord = FALSE, !.oneCommand = FALSE]
      [] c = SQ -> [st EXCEPT !.i = i + 1, !.mode = "s", !.inWord = TRUE]
      [] c = DQ -> [st EXCEPT !.i = i + 1, !.mode = "d", !.inWord = TRUE]
      [] c = BS ->
           IF i = Len(s) THEN ShTake(st, 1, BS)
           ELSE IF s[i + 1] = NL THEN [st EXCEPT !.i = i + 2]
           ELSE ShTake(st, 2, s[i + 1])
      [] c = "#" /\ ~st.inWord -> [st EXCEPT !.i = ShSkipComment(s, i)]
      [] ShExpands(s, i) \/ c \in ShGlob \/ (c = "~" /\ ~st.inWord) ->
           [ShTake(st, 1, c) EXCEPT !.verbatim = FALSE]
      [] OTHER -> ShTake(st, 1, c)

RECURSIVE ShRun(_, _)
ShRun(s, st) == IF st.i > Len(s) THEN st ELSE ShRun(s, ShStep(s, st))

ShParse(s) ==
    LET end == ShRun(s, ShStart)
    IN  [words |-> ShPush(end),
         oneCommand |-> end.oneCommand /\ end.mode = "u",
         verbatim |-> end.verbatim]

(***************************************************************************)
(* WinParse: the arguments the created process sees, by the Windows argv   *)
(* rule: 2n backslashes and a quote give n backslashes and a delimiter,    *)
(* 2n+1 backslashes and a quote give n backslashes and a literal quote,    *)
(* other backslashes are literal; blanks outside quotes separate.          *)
(***************************************************************************)
WinStart ==
    [i |-> 1, inQuotes |-> FALSE, cur |-> <<>>, inArg |-> FALSE, words |-> <<>>]

WinPush(st) == IF st.inArg THEN Append(st.words, st.cur) ELSE st.words

\* One backslash run with what follows it, or one other character.
WinStep(s, st) ==
    LET i == st.i
        n == BackslashRun(s, i)
        j == i + n
    IN
    CASE j <= Len(s) /\ s[j] = DQ /\ n % 2 = 0 ->
           [st EXCEPT !.i = j + 1, !.inQuotes = ~@, !.inArg = TRUE,
                      !.cur = @ \o Repeat(BS, n \div 2)]
      [] j <= Len(s) /\ s[j] = DQ /\ n % 2 = 1 ->
           [st EXCEPT !.i = j + 1, !.inArg = TRUE,
                      !.cur = @ \o Repeat(BS, n \div 2) \o <<DQ>>]
      [] n > 0 ->
           [st EXCEPT !.i = j, !.inArg = TRUE, !.cur = @ \o Repeat(BS, n)]
      [] s[i] \in {SP, TAB} /\ ~st.inQuotes ->
           [st EXCEPT !.i = i + 1, !.words = WinPush(st), !.cur = <<>>,
                      !.inArg = FALSE]
      [] OTHER ->
           [st EXCEPT !.i = i + 1, !.inArg = TRUE, !.cur = Append(@, s[i])]

RECURSIVE WinRun(_, _)
WinRun(s, st) == IF st.i > Len(s) THEN st ELSE WinRun(s, WinStep(s, st))

WinParse(s) ==
    [words |-> WinPush(WinRun(s, WinStart)), oneCommand |-> TRUE,
     verbatim |-> TRUE]

\* The parse of the target of the build: sh -c on POSIX, argv on Windows.
TargetParse(v, s) == IF v = "posix" THEN ShParse(s) ELSE WinParse(s)


(***************************************************************************)
(* State                                                                   *)
(***************************************************************************)
VARIABLES
    variant,        \* "posix" | "windows" (runLauncher builds) | "legacy" (WinMain)
    argv,           \* argv[0..argc-1] as a sequence: Arg(argv, 0) is the program name
    lpCmdLine,      \* legacy build: the raw command-line tail
    logWritable,    \* environment: can ./debug.txt be opened for writing
    nodePresent,    \* environment: is there a file at nodeLocation
    pc,             \* position of the launcher
    writeLog,       \* log.good() after construction
    logOpen,        \* the launcher holds the log file open
    log,            \* the lines written to the log file
    existedAtCheck, \* history: "unchecked", or was the file there at the check: "yes" | "no"
    cmd,            \* the command string being assembled
    spawnAttempts,  \* history: calls of fork / CreateProcess
    spawnedCmd,     \* history: the command strings handed to process creation
    childState,     \* "none" | "forked" | "running" | "dead"
    childTerm,      \* how the child terminated
    childHoldsLog,  \* the child has the launcher's log descriptor open
    handles,        \* Windows: pi.hProcess / pi.hThread and the history of their use
    waited,         \* history: waitpid / WaitForSingleObject was called
    waitOk,         \* the wait (POSIX) or GetExitCodeProcess (Windows) succeeded
    status,         \* POSIX: int status, as waitpid left it
    winExitCode,    \* Windows: DWORD exitCode, as two 16-bit halves
    exitCode,       \* the value runLauncher / WinMain returns (valid at pc = "done")
    tDialect,       \* escaping run: the dialect
    tArg,           \* escaping run: the argument
    tEscaped,       \* escaping run: escapeArgument's result
    tParsed,        \* escaping run: the receiving side's parse of the result
    tPc             \* escaping run: position

launcherVars ==
    <<variant, argv, lpCmdLine, logWritable, nodePresent, pc, writeLog, logOpen,
      log, existedAtCheck, cmd, spawnAttempts, spawnedCmd, childState, childTerm,
      childHoldsLog, handles, waited, waitOk, status, winExitCode, exitCode>>

escapeVars == <<tDialect, tArg, tEscaped, tParsed, tPc>>

vars == <<launcherVars, escapeVars>>

(***************************************************************************)
(* Inputs                                                                  *)
(***************************************************************************)
ProgramName == <<"l", "d", "r">>

\* Caller arguments of a launcher run: empty, plain, one that both dialects
\* quote, a backslash before a quote, and one that neither dialect quotes.
ArgSamples == {<<>>, <<"a">>, <<"b", SP, SQ>>, <<BS, DQ>>, <<"#">>}

ArgLists == UNION {[1..k -> ArgSamples] : k \in 0..MaxArgs}

\* Exit codes a child is made to exit with (127: the shell's "not found").
ExitCodeSamples == {0, 1, 2, 127, 255}

\* A DWORD as its two 16-bit halves.
Dword(n) == [hi |-> n \div 65536, lo |-> n % 65536]

\* Exit codes of a Windows child: the one-byte samples, STILL_ACTIVE (259) and
\* the access-violation code 0xC0000005.
DwordExitSamples ==
    {Dword(n) : n \in ExitCodeSamples} \cup {Dword(259), [hi |-> 49152, lo |-> 5]}

SignalSamples == {1, 9, 15, 64}

\* A termination: a POSIX exit code or signal number in val (with the core
\* flag), a Windows exit code in dword.
Term(kind, val, core, dword) ==
    [kind |-> kind, val |-> val, core |-> core, dword |-> dword, execed |-> TRUE]

\* The termination of a forked child whose execl returned: exit(code) of the
\* launcher's own image.
ExecFailure(code) == [Term("exit", code, FALSE, Dword(0)) EXCEPT !.execed = FALSE]

NoTerm == [Term("none", 0, FALSE, Dword(0)) EXCEPT !.execed = FALSE]


Arg(a, i) == a[i + 1]

argc(a) == Len(a)

Line(msg, val) == [msg |-> msg, val |-> val]

(***************************************************************************)
(* Exit status                                                             *)
(***************************************************************************)
WTERMSIG(s) == s % 128

WIFEXITED(s) == WTERMSIG(s) = 0

WEXITSTATUS(s) == (s \div 256) % 256

\* ((signed char)((s & 0x7f) + 1) >> 1) > 0
WIFSIGNALED(s) == WTERMSIG(s) >= 1 /\ WTERMSIG(s) <= 126

\* The status word the kernel reports for a termination.
WaitStatus(t) ==
    IF t.kind = "exit" THEN (t.val % 256) * 256
    ELSE t.val + (IF t.core THEN 128 ELSE 0)

\* What an uninitialised `int status` may hold: a stopped and a continued
\* status besides statuses of ordinary terminations.
GarbageStatus == {0, 256, 9, 4991, 65535}

\* A variant of the translation that returns the status word of a normal exit
\* as it is.
PosixExitCodeRaw(s) ==
    IF WIFEXITED(s) THEN s
    ELSE IF WIFSIGNALED(s) THEN 128 + WTERMSIG(s)
    ELSE 1

\* A variant of the translation that returns the bare signal number.
PosixExitCodeBareSignal(s) ==
    IF WIFEXITED(s) THEN WEXITSTATUS(s)
    ELSE IF WIFSIGNALED(s) THEN WTERMSIG(s)
    ELSE 1

\* A variant of the translation that returns a signal as a negative number.
PosixExitCodeNegativeSignal(s) ==
    IF WIFEXITED(s) THEN WEXITSTATUS(s)
    ELSE IF WIFSIGNALED(s) THEN 0 - WTERMSIG(s)
    ELSE 1

\* int exitCode = WIFEXITED(status) ? WEXITSTATUS(status) :
\*                WIFSIGNALED(status) ? 128 + WTERMSIG(status) : 1;
PosixExitCode(s) ==
    IF WIFEXITED(s) THEN WEXITSTATUS(s)
    ELSE IF WIFSIGNALED(s) THEN 128 + WTERMSIG(s)
    ELSE 1

\* static_cast<int>(exitCode) of a DWORD: two's complement, 32 bits.
DwordToInt(d) ==
    IF d.hi >= 32768 THEN (d.hi - 65536) * 65536 + d.lo ELSE d.hi * 65536 + d.lo


(***************************************************************************)
(* Process handles (Windows)                                               *)
(***************************************************************************)
\* PROCESS_INFORMATION pi = {}: no handle yet.  process and thread are
\* "none" | "open" | "closed"; the other fields are history: the exit code
\* was read, a handle was read when it was not open, a handle was closed when
\* it was not open, a handle was closed before the exit code was read.
NoHandles ==
    [process |-> "none", thread |-> "none", codeRead |-> FALSE,
     staleRead |-> FALSE, badClose |-> FALSE, closedUnread |-> FALSE]

\* CreateProcess succeeded: pi.hProcess and pi.hThread are open.
OpenHandles == [NoHandles EXCEPT !.process = "open", !.thread = "open"]

\* WaitForSingleObject(pi.hProcess, ...) / GetExitCodeProcess(pi.hProcess, ...)
UseProcessHandle(h, readsCode) ==
    [h EXCEPT !.staleRead = h.staleRead \/ h.process # "open",
              !.codeRead = h.codeRead \/ readsCode]

\* CloseHandle(pi.hProcess) / CloseHandle(pi.hThread)
CloseHandle(h, which) ==
    [h EXCEPT ![which] = "closed",
              !.badClose = h.badClose \/ h[which] # "open",
              !.closedUnread = h.closedUnread \/ ~h.codeRead]

\* A variant of the completion that closes the handles before the exit code
\* is read.
ReleaseBeforeRead(h) ==
    UseProcessHandle(
        CloseHandle(CloseHandle(UseProcessHandle(h, FALSE), "process"), "thread"),
        TRUE)

\* WaitForSingleObject; GetExitCodeProcess; CloseHandle(pi.hProcess);
\* CloseHandle(pi.hThread), in this order.
WaitReadRelease(h) ==
    CloseHandle(
        CloseHandle(UseProcessHandle(UseProcessHandle(h, FALSE), TRUE), "process"),
        "thread")


(***************************************************************************)
(* Launcher                                                                *)
(***************************************************************************)
Init ==
    /\ variant \in {"posix", "windows", "legacy"}
    /\ IF variant = "legacy"
       THEN argv = <<ProgramName>> /\ lpCmdLine \in ArgSamples
       ELSE argv \in {<<ProgramName>> \o l : l \in ArgLists} /\ lpCmdLine = <<>>
    /\ logWritable \in BOOLEAN
    /\ nodePresent \in BOOLEAN
    /\ pc = "start"
    /\ writeLog = FALSE
    /\ logOpen = FALSE
    /\ log = <<>>
    /\ existedAtCheck = "unchecked"
    /\ cmd = <<>>
    /\ spawnAttempts = 0
    /\ spawnedCmd = <<>>
    /\ childState = "none"
    /\ childTerm = NoTerm
    /\ childHoldsLog = FALSE
    /\ handles = NoHandles
    /\ waited = FALSE
    /\ waitOk = FALSE
    /\ status = 0
    /\ winExitCode = Dword(0)
    /\ exitCode = 0
    /\ tDialect = "posix"
    /\ tArg = <<>>
    /\ tEscaped = <<>>
    /\ tParsed = <<>>
    /\ tPc = "off"

\* WinMain of the Windows build: CommandLineToArgvW returned NULL; return 1
\* before runLauncher is entered.
ArgvFails ==
    /\ pc = "start"
    /\ variant = "windows"
    /\ exitCode' = 1
    /\ pc' = "done"
    /\ UNCHANGED <<variant, argv, lpCmdLine, logWritable, nodePresent, writeLog,
                   logOpen, log, existedAtCheck, cmd, spawnAttempts, spawnedCmd,
                   childState, childTerm, childHoldsLog, handles, waited,
                   waitOk, status, winExitCode, escapeVars>>

\* log << ... << std::endl; only `if (writeLog)`.
LogIf(cond, l, lines) == IF cond THEN l \o lines ELSE l

\* A variant of the startup lines that counts the program name as an argument.
StartupLinesCountProgramName ==
    IF variant = "legacy"
    THEN <<Line("Antistatic Loader Starting...", <<>>),
           Line("Command line: ", lpCmdLine)>>
    ELSE <<Line("Antistatic Loader", <<>>), Line("Args: ", argc(argv))>>

\* std::ofstream log(logFile); writeLog = log.good(); the startup lines.
StartupLines ==
    IF variant = "legacy"
    THEN <<Line("Antistatic Loader Starting...", <<>>),
           Line("Command line: ", lpCmdLine)>>
    ELSE <<Line("Antistatic Loader", <<>>), Line("Args: ", argc(argv) - 1)>>

\* A variant of the opening in which a log that cannot be opened ends the run.
OpenLogAborts ==
    /\ pc = "start"
    /\ writeLog' = logWritable
    /\ logOpen' = logWritable
    /\ log' = LogIf(logWritable, log, StartupLines)
    /\ pc' = IF logWritable THEN "check" ELSE "done"
    /\ exitCode' = IF logWritable THEN exitCode ELSE 1
    /\ UNCHANGED <<variant, argv, lpCmdLine, logWritable, nodePresent,
                   existedAtCheck, cmd, spawnAttempts, spawnedCmd, childState,
                   childTerm, childHoldsLog, handles, waited, waitOk, status, winExitCode,
                   escapeVars>>

OpenLog ==
    /\ pc = "start"
    /\ writeLog' = logWritable
    /\ logOpen' = logWritable
    /\ log' = LogIf(logWritable, log, StartupLines)
    /\ pc' = "check"
    /\ UNCHANGED <<variant, argv, lpCmdLine, logWritable, nodePresent,
                   existedAtCheck, cmd, spawnAttempts, spawnedCmd, childState,
                   childTerm, childHoldsLog, handles, waited, waitOk, status, winExitCode,
                   exitCode, escapeVars>>

\* A variant of the check that finds the file whether it is there or not.
fileExistsAlways(present) == TRUE

\* stat(path) == 0 on POSIX, std::ifstream(path).good() on Windows.
fileExists(present) == present

NotFoundLine ==
    IF variant = "legacy"
    THEN Line("ERROR: Unable to find Node.js at ", nodeLocation(variant))
    ELSE Line("ERROR: Node.js not found at ", nodeLocation(variant))

\* if (!fileExists(config.nodeLocation)) { log; return 1; }
CheckNode ==
    /\ pc = "check"
    /\ existedAtCheck' = IF nodePresent THEN "yes" ELSE "no"
    /\ IF ~fileExists(nodePresent)
       THEN /\ log' = LogIf(writeLog, log, <<NotFoundLine>>)
            /\ exitCode' = 1
            /\ logOpen' = FALSE
            /\ pc' = "done"
       ELSE /\ pc' = "build"
            /\ UNCHANGED <<log, exitCode, logOpen>>
    /\ UNCHANGED <<variant, argv, lpCmdLine, logWritable, nodePresent, writeLog,
                   cmd, spawnAttempts, spawnedCmd, childState, childTerm,
                   childHoldsLog, handles, waited, waitOk, status, winExitCode, escapeVars>>

\* A variant of the loop that starts one element early, at argv[0].
RECURSIVE AppendArgumentsFromZero(_, _, _, _)
AppendArgumentsFromZero(v, a, i, c) ==
    IF i - 1 < argc(a)
    THEN AppendArgumentsFromZero(v, a, i + 1,
             c \o <<SP>> \o escapeArgument(v, Arg(a, i - 1)))
    ELSE c

\* for (int i = 1; i < argc; ++i) cmd += " " + escapeArgument(argv[i]);
RECURSIVE AppendArguments(_, _, _, _)
AppendArguments(v, a, i, c) ==
    IF i < argc(a)
    THEN AppendArguments(v, a, i + 1, c \o <<SP>> \o escapeArgument(v, Arg(a, i)))
    ELSE c

\* A variant of the assembly that puts the security flag after the caller's
\* arguments.
LauncherCommandFlagLast(v, a) ==
    AppendArguments(v, a, 1,
        escapeArgument(v, nodeLocation(v)) \o <<SP>> \o escapeArgument(v, gameEntryPoint))
        \o <<SP>> \o SecurityFlag

\* runLauncher: escapeArgument(nodeLocation) + " --disallow... " +
\* escapeArgument(gameEntryPoint), then the loop over argv[1..argc-1].
LauncherCommand(v, a) ==
    AppendArguments(v, a, 1,
        escapeArgument(v, nodeLocation(v)) \o <<SP>> \o SecurityFlag \o <<SP>>
            \o escapeArgument(v, gameEntryPoint))

\* WinMain: nodeLocation + " --disallow... " + gameEntryPoint, then " " and
\* lpCmdLine as it is when it is not empty.
LegacyCommand(tail) ==
    nodeLocation("legacy") \o <<SP>> \o SecurityFlag \o <<SP>> \o gameEntryPoint
        \o (IF tail # <<>> THEN <<SP>> \o tail ELSE <<>>)

\* A variant of the assembly whose loop never gets past its arguments: the
\* launcher stays where the command is built.
BuildCommandStalls ==
    /\ pc = "build"
    /\ cmd' = IF variant = "legacy" THEN LegacyCommand(lpCmdLine)
              ELSE LauncherCommand(variant, argv)
    /\ pc' = "build"
    /\ UNCHANGED <<variant, argv, lpCmdLine, logWritable, nodePresent, writeLog,
                   logOpen, log, existedAtCheck, spawnAttempts, spawnedCmd,
                   childState, childTerm, childHoldsLog, handles, waited,
                   waitOk, status, winExitCode, exitCode, escapeVars>>

BuildCommand ==
    /\ pc = "build"
    /\ cmd' = IF variant = "legacy" THEN LegacyCommand(lpCmdLine)
              ELSE LauncherCommand(variant, argv)
    /\ pc' = "exec"
    /\ UNCHANGED <<variant, argv, lpCmdLine, logWritable, nodePresent, writeLog,
                   logOpen, log, existedAtCheck, spawnAttempts, spawnedCmd,
                   childState, childTerm, childHoldsLog, handles, waited,
                   waitOk, status, winExitCode, exitCode, escapeVars>>

\* Environment: the interpreter file disappears between the check and the spawn.
RemoveNode ==
    /\ pc \in {"build", "exec"}
    /\ nodePresent
    /\ nodePresent' = FALSE
    /\ UNCHANGED <<variant, argv, lpCmdLine, logWritable, pc, writeLog, logOpen,
                   log, existedAtCheck, cmd, spawnAttempts, spawnedCmd,
                   childState, childTerm, childHoldsLog, handles, waited,
                   waitOk, status, winExitCode, exitCode, escapeVars>>

SpawnErrorLines(msgObtained) ==
    CASE variant = "posix" -> <<Line("ERROR: fork failed", <<>>)>>
      [] variant = "windows" ->
           <<Line("ERROR: Process creation failed (code ", "GetLastError")>>
             \o (IF msgObtained THEN <<Line("", "FormatMessage")>> ELSE <<>>)
      [] OTHER ->
           <<Line("ERROR: Failed to create Node.js process", <<>>),
             Line("Error code: ", "GetLastError")>>
             \o (IF msgObtained THEN <<Line("Error message: ", "FormatMessage")>>
                 ELSE <<>>)

StartedLine ==
    IF variant = "legacy"
    THEN Line("Node.js process created successfully (PID: ", "pid")
    ELSE Line("Process started (PID ", "pid")

\* A variant of the failure path that goes back to create the process again.
SpawnFailsRetry ==
    /\ pc = "exec"
    /\ spawnAttempts' = spawnAttempts + 1
    /\ spawnedCmd' = Append(spawnedCmd, cmd)
    /\ log' = LogIf(writeLog, log, <<Line("Executing: ", cmd)>>)
    /\ UNCHANGED <<variant, argv, lpCmdLine, logWritable, nodePresent, pc,
                   writeLog, logOpen, existedAtCheck, cmd, childState,
                   childTerm, childHoldsLog, handles, waited, waitOk, status,
                   winExitCode, exitCode, escapeVars>>

\* runNodeProcess up to the failure return: the "Executing" line, then fork()
\* returns a negative value / CreateProcess returns FALSE.  CreateProcess
\* fails when the image is not there.
SpawnFails ==
    /\ pc = "exec"
    /\ pc' = "done"
    /\ exitCode' = 1
    /\ spawnAttempts' = spawnAttempts + 1
    /\ spawnedCmd' = Append(spawnedCmd, cmd)
    /\ \E msgObtained \in BOOLEAN :
         log' = LogIf(writeLog, log,
                      <<Line("Executing: ", cmd)>> \o SpawnErrorLines(msgObtained))
    /\ logOpen' = FALSE
    /\ UNCHANGED <<variant, argv, lpCmdLine, logWritable, nodePresent, writeLog,
                   existedAtCheck, cmd, childState, childTerm, childHoldsLog,
                   handles, waited, waitOk, status, winExitCode, escapeVars>>

\* runNodeProcess up to the wait: the "Executing" line, a successful fork() /
\* CreateProcess, the PID line.  The forked child is a copy of the launcher
\* and has its descriptors; CreateProcess is called with bInheritHandles FALSE.
SpawnSucceeds ==
    /\ pc = "exec"
    /\ variant # "posix" => nodePresent
    /\ pc' = "wait"
    /\ spawnAttempts' = spawnAttempts + 1
    /\ spawnedCmd' = Append(spawnedCmd, cmd)
    /\ log' = LogIf(writeLog, log, <<Line("Executing: ", cmd), StartedLine>>)
    /\ childState' = IF variant = "posix" THEN "forked" ELSE "running"
    /\ childHoldsLog' = (variant = "posix" /\ logOpen)
    /\ handles' = IF variant = "posix" THEN NoHandles ELSE OpenHandles
    /\ UNCHANGED <<variant, argv, lpCmdLine, logWritable, nodePresent, writeLog,
                   logOpen, existedAtCheck, cmd, childTerm, waited, waitOk,
                   status, winExitCode, exitCode, escapeVars>>


\* Child branch of fork: execl("/bin/sh", "sh", "-c", cmd, nullptr) replaces
\* the image; descriptors without close-on-exec stay open.
ChildExec ==
    /\ childState = "forked"
    /\ childState' = "running"
    /\ UNCHANGED <<variant, argv, lpCmdLine, logWritable, nodePresent, pc,
                   writeLog, logOpen, log, existedAtCheck, cmd, spawnAttempts,
                   spawnedCmd, childTerm, childHoldsLog, handles, waited,
                   waitOk, status, winExitCode, exitCode, escapeVars>>

\* A variant of the child branch in which a child whose execl returned goes
\* on into the parent's path: the PID line with pid 0, a waitpid that fails
\* for want of a child, the exit-code line, and the return from
\* runNodeProcess and main.
ChildExecFallsThrough ==
    /\ childState = "forked"
    /\ childState' = "dead"
    /\ \E g \in GarbageStatus :
         /\ childTerm' = ExecFailure(PosixExitCode(g))
         /\ log' = LogIf(writeLog, log,
                         <<Line("Process started (PID ", 0),
                           Line("Exit code: ", PosixExitCode(g))>>)
    /\ childHoldsLog' = FALSE
    /\ UNCHANGED <<variant, argv, lpCmdLine, logWritable, nodePresent, pc,
                   writeLog, logOpen, existedAtCheck, cmd, spawnAttempts,
                   spawnedCmd, handles, waited, waitOk, status, winExitCode, exitCode,
                   escapeVars>>

\* Child branch of fork: execl returned; std::cerr << ...; exit(1).
ChildExecFails ==
    /\ childState = "forked"
    /\ childState' = "dead"
    /\ childTerm' = ExecFailure(1)
    /\ childHoldsLog' = FALSE
    /\ UNCHANGED <<variant, argv, lpCmdLine, logWritable, nodePresent, pc,
                   writeLog, logOpen, log, existedAtCheck, cmd, spawnAttempts,
                   spawnedCmd, handles, waited, waitOk, status, winExitCode, exitCode,
                   escapeVars>>

\* Environment: the child terminates normally with code n.  A shell that
\* finds no ./node exits with 127.
ChildExits(n) ==
    /\ childState = "running"
    /\ variant = "posix"
    /\ ~nodePresent => n = 127
    /\ childState' = "dead"
    /\ childTerm' = Term("exit", n, FALSE, Dword(0))
    /\ childHoldsLog' = FALSE
    /\ UNCHANGED <<variant, argv, lpCmdLine, logWritable, nodePresent, pc,
                   writeLog, logOpen, log, existedAtCheck, cmd, spawnAttempts,
                   spawnedCmd, handles, waited, waitOk, status, winExitCode, exitCode,
                   escapeVars>>

\* Environment (Windows): the process ends with the DWORD exit code d.
ChildExitsWindows(d) ==
    /\ childState = "running"
    /\ variant # "posix"
    /\ childState' = "dead"
    /\ childTerm' = Term("exit", 0, FALSE, d)
    /\ UNCHANGED <<variant, argv, lpCmdLine, logWritable, nodePresent, pc,
                   writeLog, logOpen, log, existedAtCheck, cmd, spawnAttempts,
                   spawnedCmd, childHoldsLog, handles, waited, waitOk, status,
                   winExitCode, exitCode, escapeVars>>

\* Environment (POSIX): the child is terminated by signal sig.
ChildSignalled(sig, core) ==
    /\ childState = "running"
    /\ variant = "posix"
    /\ childState' = "dead"
    /\ childTerm' = Term("signal", sig, core, Dword(0))
    /\ childHoldsLog' = FALSE
    /\ UNCHANGED <<variant, argv, lpCmdLine, logWritable, nodePresent, pc,
                   writeLog, logOpen, log, existedAtCheck, cmd, spawnAttempts,
                   spawnedCmd, handles, waited, waitOk, status, winExitCode, exitCode,
                   escapeVars>>

\* A variant of the wait that returns at once, as with WNOHANG, whether or
\* not the child has terminated.
WaitReturnsNoHang ==
    /\ pc = "wait"
    /\ variant = "posix"
    /\ waited' = TRUE
    /\ waitOk' = (childState = "dead")
    /\ status' = IF childState = "dead" THEN WaitStatus(childTerm) ELSE 0
    /\ pc' = "translate"
    /\ UNCHANGED <<variant, argv, lpCmdLine, logWritable, nodePresent, writeLog,
                   logOpen, log, existedAtCheck, cmd, spawnAttempts, spawnedCmd,
                   childState, childTerm, childHoldsLog, handles, winExitCode,
                   exitCode, escapeVars>>

\* int status; waitpid(pid, &status, 0); blocks until the child has
\* terminated and stores its status.
WaitReturns ==
    /\ pc = "wait"
    /\ variant = "posix"
    /\ childState = "dead"
    /\ waited' = TRUE
    /\ waitOk' = TRUE
    /\ status' = WaitStatus(childTerm)
    /\ pc' = "translate"
    /\ UNCHANGED <<variant, argv, lpCmdLine, logWritable, nodePresent, writeLog,
                   logOpen, log, existedAtCheck, cmd, spawnAttempts, spawnedCmd,
                   childState, childTerm, childHoldsLog, handles, winExitCode,
                   exitCode,
                   escapeVars>>

\* waitpid returns -1 (ECHILD: SIGCHLD is ignored and the child was reaped);
\* the return value is not looked at and `status` was never written.
WaitFails ==
    /\ pc = "wait"
    /\ variant = "posix"
    /\ childState = "dead"
    /\ waited' = TRUE
    /\ waitOk' = FALSE
    /\ status' \in GarbageStatus
    /\ pc' = "translate"
    /\ UNCHANGED <<variant, argv, lpCmdLine, logWritable, nodePresent, writeLog,
                   logOpen, log, existedAtCheck, cmd, spawnAttempts, spawnedCmd,
                   childState, childTerm, childHoldsLog, handles, winExitCode,
                   exitCode,
                   escapeVars>>

\* WaitForSingleObject(pi.hProcess, INFINITE); DWORD exitCode = 0;
\* GetExitCodeProcess(pi.hProcess, &exitCode); CloseHandle x 2.
WaitWindows ==
    /\ pc = "wait"
    /\ variant # "posix"
    /\ childState = "dead"
    /\ waited' = TRUE
    /\ \E got \in BOOLEAN :
         /\ waitOk' = got
         /\ winExitCode' = IF got THEN childTerm.dword ELSE Dword(0)
    /\ handles' = WaitReadRelease(handles)
    /\ pc' = "translate"
    /\ UNCHANGED <<variant, argv, lpCmdLine, logWritable, nodePresent, writeLog,
                   logOpen, log, existedAtCheck, cmd, spawnAttempts, spawnedCmd,
                   childState, childTerm, childHoldsLog, status, exitCode,
                   escapeVars>>

\* The value returned: from `status` on POSIX, from the DWORD on Windows.
ReturnValue(v, s, d) == IF v = "posix" THEN PosixExitCode(s) ELSE DwordToInt(d)

ExitLine(v, code) ==
    IF v = "legacy" THEN Line("Node.js process exited with code: ", code)
    ELSE Line("Exit code: ", code)

\* The exit-code line, the return, the log's destructor.  The log line shows
\* the DWORD, the return value its conversion to int.
Finish ==
    /\ pc = "translate"
    /\ exitCode' = ReturnValue(variant, status, winExitCode)
    /\ log' = LogIf(writeLog, log,
                    <<ExitLine(variant,
                               IF variant = "posix" THEN PosixExitCode(status)
                               ELSE winExitCode)>>)
    /\ logOpen' = FALSE
    /\ pc' = "done"
    /\ UNCHANGED <<variant, argv, lpCmdLine, logWritable, nodePresent, writeLog,
                   existedAtCheck, cmd, spawnAttempts, spawnedCmd, childState,
                   childTerm, childHoldsLog, handles, waited, waitOk, status, winExitCode,
                   escapeVars>>

Next ==
    \/ ArgvFails
    \/ OpenLog
    \/ CheckNode
    \/ BuildCommand
    \/ RemoveNode
    \/ SpawnFails
    \/ SpawnSucceeds
    \/ ChildExec
    \/ ChildExecFails
    \/ \E n \in ExitCodeSamples : ChildExits(n)
    \/ \E d \in DwordExitSamples : ChildExitsWindows(d)
    \/ \E sig \in SignalSamples, core \in BOOLEAN : ChildSignalled(sig, core)
    \/ WaitReturns
    \/ WaitFails
    \/ WaitWindows
    \/ Finish

Spec == Init /\ [][Next]_vars

\* The steps of the launcher itself: a sequential program that runs on while
\* it has a statement to execute.  The wait steps are its own, enabled once
\* the child is dead.
LauncherStep ==
    \/ ArgvFails
    \/ OpenLog
    \/ CheckNode
    \/ BuildCommand
    \/ SpawnFails
    \/ SpawnSucceeds
    \/ WaitReturns
    \/ WaitFails
    \/ WaitWindows
    \/ Finish

\* The launcher run with its own progress guaranteed; nothing is assumed of
\* the child or of the environment.  Every step of the launcher changes pc.
SpecFair == Init /\ [][Next]_vars /\ WF_pc(LauncherStep)

(***************************************************************************)
(* Escaping runs: escapeArgument applied to one argument, and the          *)
(* receiving side's parse of the result.                                   *)
(***************************************************************************)
InitEscape ==
    /\ tDialect \in {"posix", "windows"}
    /\ tArg \in StringsOver(EscAlphabet, MaxStrLen)
    /\ tEscaped = <<>>
    /\ tParsed = <<>>
    /\ tPc = "arg"
    /\ variant = tDialect
    /\ argv = <<ProgramName>>
    /\ lpCmdLine = <<>>
    /\ logWritable = FALSE
    /\ nodePresent = FALSE
    /\ pc = "off"
    /\ writeLog = FALSE
    /\ logOpen = FALSE
    /\ log = <<>>
    /\ existedAtCheck = "unchecked"
    /\ cmd = <<>>
    /\ spawnAttempts = 0
    /\ spawnedCmd = <<>>
    /\ childState = "none"
    /\ childTerm = NoTerm
    /\ childHoldsLog = FALSE
    /\ handles = NoHandles
    /\ waited = FALSE
    /\ waitOk = FALSE
    /\ status = 0
    /\ winExitCode = Dword(0)
    /\ exitCode = 0

Escape ==
    /\ tPc = "arg"
    /\ tEscaped' = escapeArgument(tDialect, tArg)
    /\ tPc' = "escaped"
    /\ UNCHANGED <<tDialect, tArg, tParsed, launcherVars>>

Receive ==
    /\ tPc = "escaped"
    /\ tParsed' = TargetParse(tDialect, tEscaped)
    /\ tPc' = "parsed"
    /\ UNCHANGED <<tDialect, tArg, tEscaped, launcherVars>>

NextEscape == Escape \/ Receive

SpecEscape == InitEscape /\ [][NextEscape]_vars


(***************************************************************************)
(* Translation runs: the POSIX launcher after its wait, with every status  *)
(* word the wait can have left in `status`.                                *)
(***************************************************************************)
\* The largest status word: wait statuses have 16 bits.
MaxStatusWord == 65535

\* The signals that can terminate a child: 1 .. SIGRTMAX.
KernelSignals == 1..64

\* The terminations the kernel can report for a child.
KernelTerminations ==
    {Term("exit", n, FALSE, Dword(0)) : n \in 0..255}
        \cup {Term("signal", sig, core, Dword(0)) :
                  sig \in KernelSignals, core \in BOOLEAN}

\* After the wait: either it reported the child's termination, or it failed
\* and `status` holds any word.
InitStatus ==
    /\ variant = "posix"
    /\ argv = <<ProgramName>>
    /\ lpCmdLine = <<>>
    /\ logWritable \in BOOLEAN
    /\ nodePresent = TRUE
    /\ pc = "translate"
    /\ writeLog = logWritable
    /\ logOpen = logWritable
    /\ cmd = LauncherCommand(variant, argv)
    /\ log = LogIf(logWritable, <<>>,
                   StartupLines \o <<Line("Executing: ", cmd), StartedLine>>)
    /\ existedAtCheck = "yes"
    /\ spawnAttempts = 1
    /\ spawnedCmd = <<cmd>>
    /\ childState = "dead"
    /\ childHoldsLog = FALSE
    /\ handles = NoHandles
    /\ waited = TRUE
    /\ waitOk \in BOOLEAN
    /\ childTerm \in KernelTerminations
    /\ IF waitOk THEN status = WaitStatus(childTerm)
       ELSE /\ status \in 0..MaxStatusWord
            /\ childTerm = Term("exit", 0, FALSE, Dword(0))
    /\ winExitCode = Dword(0)
    /\ exitCode = 0
    /\ tDialect = "posix"
    /\ tArg = <<>>
    /\ tEscaped = <<>>
    /\ tParsed = <<>>
    /\ tPc = "off"

NextStatus == Finish

SpecStatus == InitStatus /\ [][NextStatus]_vars


(***************************************************************************)
(* Properties                                                              *)
(***************************************************************************)
NotFoundMessages == {"ERROR: Node.js not found at ", "ERROR: Unable to find Node.js at "}

NamesMissingPath(l) == l.msg \in NotFoundMessages /\ l.val = nodeLocation(variant)

\* C1: when the interpreter is not there at the existence check, the launcher
\* returns 1, has written a line naming the missing path exactly if the log
\* was opened, and no process creation was attempted.
MissingInterpreterFails ==
    existedAtCheck = "no" =>
        /\ pc = "done"
        /\ exitCode = 1
        /\ spawnAttempts = 0
        /\ childState = "none"
        /\ writeLog = logWritable
        /\ writeLog <=> (\E k \in 1..Len(log) : NamesMissingPath(log[k]))

MissingInterpreterWitness ==
    /\ pc = "done"
    /\ existedAtCheck = "no"
    /\ writeLog
    /\ Len(argv) > 1
    /\ NamesMissingPath(log[Len(log)])

\* The child terminated normally with the one-byte exit code n, and the wait
\* reported it.
ExitedWith(n) ==
    /\ waitOk
    /\ childTerm.kind = "exit"
    /\ IF variant = "posix" THEN childTerm.val = n
       ELSE childTerm.dword = [hi |-> 0, lo |-> n]

SpawnFailed == spawnAttempts > 0 /\ childState = "none"

\* C4: when process creation fails the launcher returns 1 without waiting,
\* and process creation is attempted at most once in a run.
SpawnFailureReturnsOne ==
    /\ spawnAttempts <= 1
    /\ Len(spawnedCmd) = spawnAttempts
    /\ SpawnFailed => (pc = "done" /\ exitCode = 1 /\ ~waited)

SpawnFailureWitness ==
    pc = "done" /\ SpawnFailed /\ existedAtCheck = "yes" /\ exitCode = 1

CleanParse(words) == [words |-> words, oneCommand |-> TRUE, verbatim |-> TRUE]

\* The characters C5 names: space, quotes, backslash and shell metacharacters.
PosixClaimChars == {SP, SQ, DQ, BS, "$", BQ, ";", "|", "&"}

\* C5: POSIX round trip: the token escapeArgument produces for an argument
\* with spaces, quotes or shell metacharacters is parsed by sh as exactly one
\* word, the argument.
PosixRoundTrip ==
    (tPc = "parsed" /\ tDialect = "posix" /\ Contains(tArg, PosixClaimChars)) =>
        tParsed = CleanParse(<<tArg>>)

PosixRoundTripWitness ==
    /\ tPc = "parsed"
    /\ tDialect = "posix"
    /\ tArg = <<SQ, "$", SQ>>
    /\ tParsed = CleanParse(<<tArg>>)

\* C6: Windows round trip: the token escapeArgument produces for an argument
\* with a blank or a double quote is parsed by the argv rule as exactly one
\* argument, the original, backslash runs before a quote and at the end
\* included.
WindowsRoundTrip ==
    (tPc = "parsed" /\ tDialect = "windows" /\ Contains(tArg, WindowsEscapeChars)) =>
        tParsed.words = <<tArg>>

WindowsRoundTripWitness ==
    /\ tPc = "parsed"
    /\ tDialect = "windows"
    /\ tArg = <<BS, DQ, BS>>
    /\ tParsed.words = <<tArg>>

QuoteOf(v) == IF v = "posix" THEN SQ ELSE DQ

\* C7: an argument with none of the dialect's characters to escape is
\* returned unchanged; any other result begins and ends with the dialect's
\* quote character.
PassThroughIdentity ==
    tPc \in {"escaped", "parsed"} =>
        IF Contains(tArg, EscapeChars(tDialect))
        THEN /\ Len(tEscaped) >= Len(tArg) + 2
             /\ tEscaped[1] = QuoteOf(tDialect)
             /\ tEscaped[Len(tEscaped)] = QuoteOf(tDialect)
        ELSE tEscaped = tArg

PassThroughWitness ==
    /\ tPc = "escaped"
    /\ tDialect = "posix"
    /\ tArg = <<"a", "#", "a">>
    /\ tEscaped = tArg

\* The command string has been assembled.
Assembled == pc \in {"exec", "wait", "translate"} \/ spawnAttempts > 0

RECURSIVE JoinWithLeadingSpace(_)
JoinWithLeadingSpace(tokens) ==
    IF tokens = <<>> THEN <<>>
    ELSE <<SP>> \o Head(tokens) \o JoinWithLeadingSpace(Tail(tokens))

CallerArgs == Tail(argv)

FixedPrefix(v) ==
    escapeArgument(v, nodeLocation(v)) \o <<SP>> \o SecurityFlag \o <<SP>>
        \o escapeArgument(v, gameEntryPoint)

\* C8: the command string runLauncher assembles is the interpreter token, a
\* space, the security flag, a space, the script token, and then for each
\* caller argument in order a space and its escaped form; argv[0] is not in it.
CommandAssembledInOrder ==
    (variant # "legacy" /\ Assembled) =>
        cmd = FixedPrefix(variant) \o
              JoinWithLeadingSpace([k \in 1..Len(CallerArgs) |->
                                       escapeArgument(variant, CallerArgs[k])])

CommandAssembledWitness ==
    /\ variant = "posix"
    /\ pc = "exec"
    /\ Len(CallerArgs) = 2
    /\ CallerArgs[1] = <<"b", SP, SQ>>
    /\ CallerArgs[2] = <<"a">>

\* C9: the receiving side's parse of the command string handed to process
\* creation is one simple command whose words are the interpreter path, the
\* security flag, the script path and the caller's arguments, unchanged.
VerbatimForwarding ==
    (variant # "legacy" /\ childState = "running") =>
        TargetParse(variant, spawnedCmd[1]) =
            CleanParse(<<nodeLocation(variant), SecurityFlag, gameEntryPoint>>
                           \o CallerArgs)

IsPrefix(p, s) == Len(p) <= Len(s) /\ SubSeq(s, 1, Len(p)) = p

\* C10: every command string handed to process creation has the security
\* flag right after the interpreter path and before the script path and any
\* caller-supplied text; the receiving side sees it as its first argument.
SecurityFlagAlwaysPassed ==
    \A k \in 1..Len(spawnedCmd) :
        /\ IsPrefix(nodeLocation(variant) \o <<SP>> \o SecurityFlag \o <<SP>>
                        \o gameEntryPoint, spawnedCmd[k])
        /\ LET w == TargetParse(variant, spawnedCmd[k]).words
           IN  Len(w) >= 3 /\ w[1] = nodeLocation(variant) /\ w[2] = SecurityFlag
                   /\ w[3] = gameEntryPoint

SecurityFlagWitness ==
    /\ variant = "posix"
    /\ Len(spawnedCmd) = 1
    /\ Len(CallerArgs) = 2
    /\ CallerArgs[1] = <<"#">>
    /\ childState = "running"

\* The command string of the run, from its inputs alone.
ExpectedCommand ==
    IF variant = "legacy" THEN LegacyCommand(lpCmdLine)
    ELSE LauncherCommand(variant, argv)

\* The exit code of the run, from what the check, the process creation and
\* the wait did; the log has no part in it.
ExpectedExit ==
    CASE existedAtCheck # "yes" -> 1
      [] SpawnFailed -> 1
      [] OTHER -> ReturnValue(variant, status, winExitCode)

\* C11: log best-effort: whether or not the log opened, the launcher makes
\* the existence check, assembles and spawns the command string its inputs
\* determine, waits for a child it created and returns the exit code the
\* check, the creation and the wait determine; when the log did not open
\* nothing is written to it.
LogBestEffort ==
    /\ ~logWritable => (~writeLog /\ ~logOpen /\ log = <<>>)
    /\ (pc \notin {"start", "check"} /\ existedAtCheck = "unchecked") =>
           (variant = "windows" /\ pc = "done" /\ ~writeLog)
    /\ Assembled => (existedAtCheck = "yes" /\ cmd = ExpectedCommand)
    /\ \A k \in 1..Len(spawnedCmd) : spawnedCmd[k] = ExpectedCommand
    /\ pc = "done" =>
           /\ exitCode = ExpectedExit
           /\ existedAtCheck = "yes" => spawnAttempts = 1
           /\ childState # "none" => (childState = "dead" /\ waited)

LogBestEffortWitness ==
    /\ pc = "done"
    /\ ~logWritable
    /\ log = <<>>
    /\ Len(CallerArgs) = 2
    /\ Len(spawnedCmd) = 1
    /\ childState = "dead"
    /\ waitOk
    /\ exitCode = 2

\* The wait reported the termination, and the status it stored says how the
\* child ended: a normal exit or a signal.
TerminationDetermined ==
    waitOk /\ (variant = "posix" => (WIFEXITED(status) \/ WIFSIGNALED(status)))

\* C12: exit-status fallback: after a successful process creation, when the
\* child's termination is determined neither as a normal exit nor as a
\* signal (a failed wait or a failed read of the exit status included), the
\* launcher returns 1.
ExitStatusFallback ==
    (pc = "done" /\ childState = "dead" /\ ~TerminationDetermined) => exitCode = 1

\* The child terminated normally with exit code 0.
ChildExitedZero ==
    /\ childTerm.kind = "exit"
    /\ IF variant = "posix" THEN childTerm.val = 0 ELSE childTerm.dword = Dword(0)

\* C13: the launcher returns 0 only if the interpreter was there at the
\* check, process creation succeeded, the wait reported the termination and
\* the child exited normally with code 0.
ZeroOnlyOnSuccess ==
    (pc = "done" /\ exitCode = 0) =>
        /\ existedAtCheck = "yes"
        /\ childState = "dead"
        /\ waitOk
        /\ ChildExitedZero

\* C14: on every exit path the log file is closed when the launcher has
\* returned; on the child-completed path of the Windows builds the process
\* and thread handles are open during the wait and closed at the return,
\* after the exit code was read; no handle is used after its release and
\* none is released twice.
ResourcesReleased ==
    /\ pc = "done" => ~logOpen
    /\ ~handles.staleRead /\ ~handles.badClose /\ ~handles.closedUnread
    /\ (variant # "posix" /\ childState # "none") =>
           IF pc = "wait"
           THEN handles.process = "open" /\ handles.thread = "open"
           ELSE /\ handles.process = "closed" /\ handles.thread = "closed"
                /\ handles.codeRead /\ waited
    /\ (variant = "posix" \/ childState = "none") => handles = NoHandles

ResourcesReleasedWitness ==
    /\ pc = "done"
    /\ variant = "windows"
    /\ writeLog
    /\ ~logOpen
    /\ handles.process = "closed"
    /\ handles.thread = "closed"
    /\ exitCode = 2

ExitMessages == {"Exit code: ", "Node.js process exited with code: "}

\* The child exists and has not terminated.
ChildAlive == childState \in {"forked", "running"}

\* C15: synchronous wait: while a created child has not terminated the
\* launcher is in the wait, has not returned and has not written the
\* exit-code line; it is past the wait only when the child is dead.
SynchronousWait ==
    /\ ChildAlive =>
           /\ pc = "wait"
           /\ ~waited
           /\ \A k \in 1..Len(log) : log[k].msg \notin ExitMessages
    /\ (childState # "none" /\ pc \in {"translate", "done"}) =>
           (childState = "dead" /\ waited)
    /\ waited => childState = "dead"

SynchronousWaitWitness ==
    /\ pc = "wait"
    /\ variant = "posix"
    /\ childState = "running"
    /\ writeLog
    /\ log[Len(log)] = StartedLine

StartedMessage == "Process started (PID "

SpawnErrorMessages == {"ERROR: fork failed", "ERROR: Process creation failed (code "}

\* The log has a line with the message msg.
Logged(msg) == \E k \in 1..Len(log) : log[k].msg = msg

\* The place the k-th line has in a log of runLauncher.
LineInPlace(k) ==
    CASE log[k].msg = "Antistatic Loader" -> k = 1
      [] log[k].msg = "Args: " -> k = 2 /\ log[k].val = Len(CallerArgs)
      [] log[k].msg = "ERROR: Node.js not found at " ->
           k = 3 /\ k = Len(log) /\ existedAtCheck = "no"
      [] log[k].msg = "Executing: " ->
           k = 3 /\ log[k].val = ExpectedCommand /\ log[k].val = spawnedCmd[1]
      [] log[k].msg = StartedMessage ->
           k = 4 /\ log[3].msg = "Executing: " /\ childState # "none"
      [] log[k].msg \in SpawnErrorMessages ->
           k = 4 /\ log[3].msg = "Executing: " /\ SpawnFailed
      [] log[k].msg = "" ->
           k = 5 /\ k = Len(log) /\ log[4].msg \in SpawnErrorMessages
      [] log[k].msg = "Exit code: " ->
           k = 5 /\ k = Len(log) /\ log[4].msg = StartedMessage /\ waited
      [] OTHER -> FALSE

\* C16: in a run of runLauncher whose log opened the lines are, in this
\* order: the startup line, the count of caller arguments, the "Executing"
\* line with the assembled command, the PID line only when process creation
\* succeeded, and last the exit-code line or the error lines; a PID line and
\* a spawn-error line are never in one log.
LogOrdered ==
    (variant # "legacy" /\ writeLog) =>
        /\ Len(log) >= 2
        /\ \A k \in 1..Len(log) : LineInPlace(k)
        /\ spawnAttempts > 0 => (Len(log) >= 4 /\ log[3].msg = "Executing: ")
        /\ Logged(StartedMessage) <=> childState # "none"
        /\ ~(Logged(StartedMessage) /\ \E m \in SpawnErrorMessages : Logged(m))
        /\ pc = "done" =>
               log[Len(log)].msg \in
                   {"Exit code: ", "", "ERROR: Node.js not found at "}
                       \cup SpawnErrorMessages

LogOrderedWitness ==
    /\ pc = "done"
    /\ variant = "posix"
    /\ writeLog
    /\ Len(CallerArgs) = 2
    /\ Len(log) = 5
    /\ log[4].msg = StartedMessage
    /\ log[5].msg = "Exit code: "
    /\ log[5].val = 137

\* The number of lines of the log with the message msg.
LinesWith(msg) == Cardinality({k \in 1..Len(log) : log[k].msg = msg})

MissingAtSpawn == spawnAttempts > 0 /\ ~nodePresent

\* C18: whenever the interpreter is missing when the spawn is attempted, the
\* launcher returns 1, also when the file was removed between the existence
\* check and the spawn.
MissingAtSpawnReturnsOne ==
    (pc = "done" /\ MissingAtSpawn) => exitCode = 1

\* The messages that are followed by the platform's error code.
ErrorCodeMessages == {"ERROR: Process creation failed (code ", "Error code: "}

\* The line is an error line with the platform error code of the failure.
CarriesErrorCode(l) == l.msg \in ErrorCodeMessages /\ l.val = "GetLastError"

\* C19: when process creation fails and the log was opened, the launcher
\* returns 1 and the log has a line with the platform error code of the
\* failure, in the Windows builds (CreateProcess) and in the POSIX build
\* (fork).
SpawnFailureLogsErrorCode ==
    (pc = "done" /\ SpawnFailed /\ writeLog) =>
        /\ exitCode = 1
        /\ \E k \in 1..Len(log) : CarriesErrorCode(log[k])

\* C20: exclusive ownership of the log file handle: in no state does the
\* spawned child (the forked process, or the shell and interpreter it
\* becomes) have the launcher's log file open, and once the launcher has
\* closed the log no process has it open.
LogHandleExclusive ==
    /\ ~childHoldsLog
    /\ (pc = "done" /\ ~logOpen) => ~childHoldsLog

\* A child that was spawned eventually terminates.
ChildTerminates == ChildAlive ~> (childState = "dead")

\* C21: termination: provided a spawned child eventually terminates, every
\* run of the launcher eventually returns; the assembly of the command (with
\* the escaping of every argument) is always completed; and on the not-found
\* and spawn-failure paths the launcher has returned with no child involved.
Termination ==
    /\ ChildTerminates => <>(pc = "done")
    /\ (pc = "build") ~> (pc = "exec")
    /\ [](((existedAtCheck = "no") \/ SpawnFailed) =>
             (pc = "done" /\ childState = "none" /\ ~waited))

TerminationWitness ==
    /\ pc = "done"
    /\ childState = "dead"
    /\ waited
    /\ Len(CallerArgs) = 2
    /\ CallerArgs[1] = <<BS, DQ>>
    /\ CallerArgs[2] = <<"b", SP, SQ>>

\* C22: on POSIX the exit code the launcher returns is in 0..255 for every
\* status word, so truncation to 8 bits does not alter it: a reported normal
\* exit gives the child's code, a reported signal S gives 128 + S, at most
\* 192, and a status that is neither an exit nor a signal gives 1.
ExitCodeInByteRange ==
    (variant = "posix" /\ pc = "done" /\ childState = "dead") =>
        /\ exitCode \in 0..255
        /\ exitCode % 256 = exitCode
        /\ (waitOk /\ childTerm.kind = "exit") =>
               exitCode = childTerm.val
        /\ (waitOk /\ childTerm.kind = "signal") =>
               (exitCode = 128 + childTerm.val /\ exitCode <= 192)
        /\ (~WIFEXITED(status) /\ ~WIFSIGNALED(status)) => exitCode = 1

ExitCodeInByteRangeWitness ==
    /\ pc = "done"
    /\ variant = "posix"
    /\ waitOk
    /\ childTerm.kind = "signal"
    /\ childTerm.val = 64
    /\ exitCode = 192
    /\ writeLog

====
